---- MODULE Spec2Model ----
(***************************************************************************)
(* Model of linkedin_relative_skill_group_penetration.py: the dense-grid   *)
(* builder get_data and the Bokeh selection-change callback around it.     *)
(*                                                                         *)
(* Names (skill groups, countries) are strings in the program; the only    *)
(* things the program does with them are equality tests and lexicographic  *)
(* comparison (sorted(), the key sort of an outer merge).  A name is        *)
(* modelled by its rank in lexicographic order, a natural number.          *)
(* Measures (ratio, count) are naturals; NaN is the null of pandas.        *)
(***************************************************************************)
EXTENDS Integers, Sequences, FiniteSets, TLC

VARIABLES
    df,             \* the source table: [columns, rows]
    outer_sorts,    \* whether pandas' how="outer" merge sorts the join keys
    pc,             \* "boot" | "serving" | "failed" | "unit" | "returned"
    skill_value,    \* skill_multi_choice.value
    country_value,  \* country_multi_choice.value
    factors,        \* p.x_range.factors
    source,         \* source.data
    events,         \* number of selection changes served so far
    countries,      \* argument of a direct get_data call
    skills,         \* argument of a direct get_data call
    ret             \* what the direct get_data call returned

vars == <<df, outer_sorts, pc, skill_value, country_value, factors, source,
          events, countries, skills, ret>>

-----------------------------------------------------------------------------
(* Bounds of the model *)

MaxRows == 2         \* rows of a source table given to get_data directly
MaxSel == 2          \* length of a freely ordered selection list
MaxCountries == 12   \* length of the longest country list
MaxEvents == 2       \* selection changes per run of the application

-----------------------------------------------------------------------------
(* Program constants *)

NaN == -1

SKILL == "skill_group_name"
COUNTRY == "country_name"
RATIO == "relative_skill_group_penetration"
COUNT == "n_occupations_country_skill"

ExpectedColumns == {SKILL, COUNTRY, RATIO, COUNT}

\* ranks of "Artificial Intelligence (AI)", "Digital Literacy",
\* "Human Computer Interaction", "Scientific Computing"
select_skills == <<1, 2, 3, 4>>

\* ranks of "Botswana", "Germany", "Kenya", "Mauritius", "Namibia", "Nigeria",
\* "Poland", "South Africa"; rank 1 is a country that sorts before Botswana
select_countries == <<2, 3, 4, 5, 6, 7, 8, 9>>

DefaultColor == [palette |-> "#1f77b4", size |-> 0, index |-> 0]

\* bokeh.palettes.Spectral[n], the n-colour palette, n in 3..11
Spectral(n) == [i \in 1..n |-> [palette |-> "Spectral", size |-> n, index |-> i]]

-----------------------------------------------------------------------------
(* Helpers on sequences *)

Range(s) == {s[i] : i \in 1..Len(s)}

RECURSIVE Repeat(_, _)
\* Python's n * list
Repeat(n, s) == IF n <= 0 THEN <<>> ELSE s \o Repeat(n - 1, s)

RECURSIVE Dedup(_)
\* the distinct elements of s in order of first appearance
Dedup(s) ==
    IF s = <<>> THEN <<>>
    ELSE LET rest == Dedup(SelectSeq(Tail(s), LAMBDA e : e # Head(s)))
         IN  <<Head(s)>> \o rest

RECURSIVE Flatten(_)
Flatten(ss) == IF ss = <<>> THEN <<>> ELSE Head(ss) \o Flatten(Tail(ss))

InsertSorted(v, s) ==
    LET k == Cardinality({i \in 1..Len(s) : s[i] <= v})
    IN  SubSeq(s, 1, k) \o <<v>> \o SubSeq(s, k + 1, Len(s))

RECURSIVE sorted(_)
\* Python's sorted() on a list of names
sorted(s) ==
    IF s = <<>> THEN <<>>
    ELSE InsertSorted(s[Len(s)], sorted(SubSeq(s, 1, Len(s) - 1)))

-----------------------------------------------------------------------------
(* get_data *)

PairsWith(a, cs) == [j \in 1..Len(cs) |-> <<a, cs[j]>>]

RECURSIVE ProductCountryOuter(_, _)
ProductCountryOuter(ss, cs) ==
    IF cs = <<>> THEN <<>>
    ELSE [i \in 1..Len(ss) |-> <<ss[i], Head(cs)>>]
         \o ProductCountryOuter(ss, Tail(cs))

RECURSIVE Product(_, _)
\* itertools.product(skills, countries): the last iterable advances fastest
Product(ss, cs) ==
    IF ss = <<>> THEN <<>>
    ELSE PairsWith(Head(ss), cs) \o Product(Tail(ss), cs)

KeyOf(r) == <<r[SKILL], r[COUNTRY]>>

\* tuple comparison of two (skill, country) keys
KeyLeq(a, b) == a[1] < b[1] \/ (a[1] = b[1] /\ a[2] <= b[2])

RECURSIVE SortedKeys(_)
SortedKeys(S) ==
    IF S = {} THEN <<>>
    ELSE LET m == CHOOSE k \in S : \A o \in S : KeyLeq(k, o)
         IN  <<m>> \o SortedKeys(S \ {m})

\* df[pd.Series(zip(df[skill], df[country])).isin(x)]
FilterRows(rows, x) == SelectSeq(rows, LAMBDA r : KeyOf(r) \in Range(x))

NullRow(k) ==
    [skill_group_name |-> k[1], country_name |-> k[2],
     relative_skill_group_penetration |-> NaN,
     n_occupations_country_skill |-> NaN]

\* the rows an outer join produces for one key: every left row paired with
\* every right row of that key; a side without a match is filled with NaN
JoinGroup(k, left, right) ==
    LET nl == Cardinality({i \in 1..Len(left) : left[i] = k})
        rs == SelectSeq(right, LAMBDA r : KeyOf(r) = k)
    IN  IF rs = <<>> THEN Repeat(nl, <<NullRow(k)>>)
        ELSE IF nl = 0 THEN rs
        ELSE Repeat(nl, rs)

\* the order in which the join keys appear in the result of how="outer":
\* sorted lexicographically (the documented behaviour), or in order of first
\* appearance, left frame first (pandas before 2.2 with sort=False)
KeyOrder(left, right, sorts) ==
    LET rkeys == [i \in 1..Len(right) |-> KeyOf(right[i])]
    IN  IF sorts THEN SortedKeys(Range(left) \cup Range(rkeys))
        ELSE Dedup(left \o rkeys)

\* pd.merge(df1, df2, on=[skill, country], how="outer")
merge(left, right, sorts) ==
    LET order == KeyOrder(left, right, sorts)
    IN  Flatten([i \in 1..Len(order) |-> JoinGroup(order[i], left, right)])

Column(rows, c) == [i \in 1..Len(rows) |-> rows[i][c]]

ColorColumnUnrepeated(cs, ss) ==
    IF 2 < Len(cs) /\ Len(cs) <= 11
    THEN Spectral(Len(cs))
    ELSE Repeat(Len(cs) * Len(ss), <<DefaultColor>>)

ColorColumnNarrow(cs, ss) ==
    IF 2 < Len(cs) /\ Len(cs) < 11
    THEN Repeat(Len(ss), Spectral(Len(cs)))
    ELSE Repeat(Len(cs) * Len(ss), <<DefaultColor>>)

\* data["color"]
ColorColumn(cs, ss) ==
    IF 2 < Len(cs) /\ Len(cs) <= 11
    THEN Repeat(Len(ss), Spectral(Len(cs)))
    ELSE Repeat(Len(cs) * Len(ss), <<DefaultColor>>)

Raised(n) ==
    [err |-> "KeyError", joins |-> n,
     x |-> <<>>, y |-> <<>>, z |-> <<>>, color |-> <<>>]

KeyErrorAtMeasuresFirst(columns) ==
    IF RATIO \notin columns THEN "y"
    ELSE IF COUNT \notin columns THEN "z"
    ELSE IF SKILL \notin columns \/ COUNTRY \notin columns THEN "filter"
    ELSE "none"

\* the statement of get_data at which a column lookup raises KeyError:
\* "filter" is df[skill], df[country] of the row filter, "y" and "z" are the
\* lookups of the measure columns on the merged frames
KeyErrorAt(columns) ==
    IF SKILL \notin columns \/ COUNTRY \notin columns THEN "filter"
    ELSE IF RATIO \notin columns THEN "y"
    ELSE IF COUNT \notin columns THEN "z"
    ELSE "none"

\* get_data(df, countries, skills); joins counts the merges performed
get_data(d, cs, ss, sorts) ==
    LET x == Product(ss, cs)
        at == KeyErrorAt(d.columns)
        df2 == FilterRows(d.rows, x)
        y == Column(merge(x, df2, sorts), RATIO)
        z == Column(merge(x, df2, sorts), COUNT)
    IN  IF at = "filter" THEN Raised(0)
        ELSE IF at = "y" THEN Raised(1)
        ELSE IF at = "z" THEN Raised(2)
        ELSE [err |-> "none", joins |-> 2,
              x |-> x, y |-> y, z |-> z, color |-> ColorColumn(cs, ss)]

Data(r) == [x |-> r.x, y |-> r.y, z |-> r.z, color |-> r.color]

-----------------------------------------------------------------------------
(* Inputs *)

SeqsUpTo(S, n) == UNION {[1..k -> S] : k \in 0..n}

\* the orderings of the subsets of S with at most n elements
Selections(S, n) ==
    {s \in SeqsUpTo(S, n) : \A i, j \in 1..Len(s) : i # j => s[i] # s[j]}

\* names that occur in the source tables of the model; skill 5 and country 1
\* are not among the defaults
SrcSkills == {1, 5}
SrcCountries == {1, 2}

\* (ratio, count) of a source record; ratios are in hundredths
Measures == {<<357, 12>>, <<80, 7>>}

Rows ==
    {[skill_group_name |-> s, country_name |-> c,
      relative_skill_group_penetration |-> m[1],
      n_occupations_country_skill |-> m[2]] :
        s \in SrcSkills, c \in SrcCountries, m \in Measures}

Tables(n) == SeqsUpTo(Rows, n)

\* names a direct caller may select; skill 2 and country 3 are unknown to
\* every source table
CallSkills == {1, 2, 5}
CallCountries == {1, 2, 3}

Upto(k) == [i \in 1..k |-> i]

\* the arguments of a direct call of get_data
UnitInputs ==
    \* join behaviour: any table, any order of short selections
    [columns : {ExpectedColumns}, rows : Tables(MaxRows),
     skills : Selections(CallSkills, MaxSel),
     countries : Selections(CallCountries, MaxSel)]
    \cup
    \* palette sizes: country lists of every length up to MaxCountries
    [columns : {ExpectedColumns}, rows : Tables(1),
     skills : Selections(CallSkills, MaxSel),
     countries : {Upto(k) : k \in 0..MaxCountries}]
    \cup
    \* malformed tables: some expected column is missing
    [columns : (SUBSET ExpectedColumns) \ {ExpectedColumns}, rows : Tables(1),
     skills : Selections(CallSkills, MaxSel),
     countries : Selections(CallCountries, MaxSel)]

EmptyData == [x |-> <<>>, y |-> <<>>, z |-> <<>>, color |-> <<>>]

-----------------------------------------------------------------------------
(* The application: module-level script, then callbacks *)

all_skills == Range(Column(df.rows, SKILL))
all_countries == Range(Column(df.rows, COUNTRY))

Init ==
    /\ df \in [columns : SUBSET ExpectedColumns, rows : Tables(1)]
    /\ outer_sorts \in BOOLEAN
    /\ pc = "boot"
    /\ skill_value = <<>>
    /\ country_value = <<>>
    /\ factors = <<>>
    /\ source = EmptyData
    /\ events = 0
    /\ countries = <<>>
    /\ skills = <<>>
    /\ ret = Raised(0)

\* lines 82-111: the options read the key columns, then the first grid
Startup ==
    /\ pc = "boot"
    /\ LET data == get_data(df, select_countries, select_skills, outer_sorts)
       IN  IF KeyErrorAt(df.columns) = "filter" \/ data.err # "none"
           THEN /\ pc' = "failed"
                /\ UNCHANGED <<skill_value, country_value, factors, source>>
           ELSE /\ pc' = "serving"
                /\ skill_value' = select_skills
                /\ country_value' = select_countries
                /\ factors' = data.x
                /\ source' = Data(data)
    /\ UNCHANGED <<df, outer_sorts, events, countries, skills, ret>>

callback_unsorted ==
    LET data == get_data(df, country_value', skill_value', outer_sorts)
    IN  IF data.err # "none"
        THEN UNCHANGED <<factors, source>>
        ELSE /\ factors' = data.x
             /\ source' = Data(data)

callback_keeps_factors ==
    LET data == get_data(df, sorted(country_value'), sorted(skill_value'),
                         outer_sorts)
    IN  IF data.err # "none"
        THEN UNCHANGED <<factors, source>>
        ELSE /\ UNCHANGED factors
             /\ source' = Data(data)

\* callback(attr, old, new), run after the widget's value has changed; an
\* exception raised by get_data leaves the two assignments unexecuted
callback ==
    LET data == get_data(df, sorted(country_value'), sorted(skill_value'),
                         outer_sorts)
    IN  IF data.err # "none"
        THEN UNCHANGED <<factors, source>>
        ELSE /\ factors' = data.x
             /\ source' = Data(data)

Remove(s, i) == SubSeq(s, 1, i - 1) \o SubSeq(s, i + 1, Len(s))

Serving ==
    /\ pc = "serving"
    /\ events < MaxEvents
    /\ events' = events + 1
    /\ UNCHANGED <<df, outer_sorts, pc, countries, skills, ret>>

\* the user picks an option of skill_multi_choice
SkillSelect ==
    /\ Serving
    /\ \E s \in all_skills \ Range(skill_value) :
          skill_value' = Append(skill_value, s)
    /\ UNCHANGED country_value
    /\ callback

\* the user deletes a chosen skill
SkillDelete ==
    /\ Serving
    /\ \E i \in 1..Len(skill_value) : skill_value' = Remove(skill_value, i)
    /\ UNCHANGED country_value
    /\ callback

\* the user picks an option of country_multi_choice
CountrySelect ==
    /\ Serving
    /\ \E c \in all_countries \ Range(country_value) :
          country_value' = Append(country_value, c)
    /\ UNCHANGED skill_value
    /\ callback

\* the user deletes a chosen country
CountryDelete ==
    /\ Serving
    /\ \E i \in 1..Len(country_value) :
          country_value' = Remove(country_value, i)
    /\ UNCHANGED skill_value
    /\ callback

Next == Startup \/ SkillSelect \/ SkillDelete \/ CountrySelect \/ CountryDelete

Spec == Init /\ [][Next]_vars

-----------------------------------------------------------------------------
(* get_data called directly, on every input of UnitInputs *)

InitUnit ==
    /\ \E in \in UnitInputs :
          /\ df = [columns |-> in.columns, rows |-> in.rows]
          /\ countries = in.countries
          /\ skills = in.skills
    /\ outer_sorts \in BOOLEAN
    /\ pc = "unit"
    /\ skill_value = <<>>
    /\ country_value = <<>>
    /\ factors = <<>>
    /\ source = EmptyData
    /\ events = 0
    /\ ret = Raised(0)

Call ==
    /\ pc = "unit"
    /\ ret' = get_data(df, countries, skills, outer_sorts)
    /\ pc' = "returned"
    /\ UNCHANGED <<df, outer_sorts, skill_value, country_value, factors,
                   source, events, countries, skills>>

NextUnit == Call

SpecUnit == InitUnit /\ [][NextUnit]_vars

-----------------------------------------------------------------------------
(* Properties *)

Returned == pc = "returned" /\ ret.err = "none"

WellFormed == df.columns = ExpectedColumns

SourceKeys == {KeyOf(df.rows[i]) : i \in 1..Len(df.rows)}

UniqueKeys ==
    \A i, j \in 1..Len(df.rows) :
        i # j => KeyOf(df.rows[i]) # KeyOf(df.rows[j])

RECURSIVE Ascending(_)
\* the elements of a set of names in ascending order
Ascending(S) ==
    IF S = {} THEN <<>>
    ELSE LET m == CHOOSE v \in S : \A o \in S : v <= o
         IN  <<m>> \o Ascending(S \ {m})

\* C1: the grid get_data returns has exactly |skills| x |countries| entries
\* in each of its four columns x, y, z and color.
C1_GridSize ==
    Returned =>
        LET n == Len(skills) * Len(countries)
        IN  /\ Len(ret.x) = n
            /\ Len(ret.y) = n
            /\ Len(ret.z) = n
            /\ Len(ret.color) = n

\* C2: with unique source keys and any order of the two lists, the ratio and
\* count of a source record sit at the position of its pair in x.
C2_ValuesAtPairPosition ==
    (Returned /\ UniqueKeys) =>
        \A i \in 1..Len(ret.x) :
            \A k \in 1..Len(df.rows) :
                KeyOf(df.rows[k]) = ret.x[i] =>
                    /\ i <= Len(ret.y)
                    /\ i <= Len(ret.z)
                    /\ ret.y[i] = df.rows[k][RATIO]
                    /\ ret.z[i] = df.rows[k][COUNT]

\* C3: a pair of x without a record in the source has a null y and a null z
\* at its position, and get_data raises no error.
C3_AbsentPairIsNull ==
    (pc = "returned" /\ WellFormed) =>
        /\ ret.err = "none"
        /\ \A i \in 1..Len(ret.x) :
              ret.x[i] \notin SourceKeys =>
                  /\ i <= Len(ret.y)
                  /\ i <= Len(ret.z)
                  /\ ret.y[i] = NaN
                  /\ ret.z[i] = NaN

\* C4: x is the row-major cartesian product of the lists as passed, skill
\* outer and country inner.
C4_RowMajorProduct ==
    Returned =>
        /\ Len(ret.x) = Len(skills) * Len(countries)
        /\ \A i \in 1..Len(skills) :
              \A j \in 1..Len(countries) :
                  ret.x[(i - 1) * Len(countries) + j]
                      = <<skills[i], countries[j]>>

C4_Witness ==
    /\ Returned
    /\ skills = <<5, 1>>
    /\ countries = <<2, 1>>
    /\ ret.x = << <<5, 2>>, <<5, 1>>, <<1, 2>>, <<1, 1>> >>

\* C5: with 3 to 11 countries every entry of a country has the same palette
\* colour in every skill row; with at most 2 or at least 12 countries every
\* entry has the single default colour.
C5_ColourAssignment ==
    Returned =>
        /\ Len(ret.color) = Len(ret.x)
        /\ IF 3 <= Len(countries) /\ Len(countries) <= 11
           THEN \A i \in 1..Len(ret.x) :
                    /\ ret.color[i].palette = "Spectral"
                    /\ \A j \in 1..Len(ret.x) :
                          ret.x[i][2] = ret.x[j][2]
                              => ret.color[i] = ret.color[j]
           ELSE \A i \in 1..Len(ret.color) : ret.color[i] = DefaultColor

C5_Witness ==
    /\ Returned
    /\ Len(countries) = 11
    /\ Len(skills) = 2
    /\ ret.color[1] = ret.color[12]
    /\ ret.color[1] # ret.color[2]
    /\ ret.color[1] # DefaultColor

\* C7 as stated: a table lacking one of the four expected columns makes
\* get_data fail with a missing-field error before any join is attempted.
C7_FailsBeforeAnyJoin ==
    (pc = "returned" /\ Cardinality(ExpectedColumns \ df.columns) = 1) =>
        /\ ret.err = "KeyError"
        /\ ret.joins = 0

\* C7 amended: a table lacking any expected column makes get_data fail with a
\* KeyError; no join precedes the failure when a key column is missing, one
\* join precedes it when only measure columns are missing and the ratio is
\* among them, two joins precede it when only the count is missing.
C7_FailsAtFirstLookup ==
    (pc = "returned" /\ ~WellFormed) =>
        /\ ret.err = "KeyError"
        /\ ret.joins =
              IF SKILL \notin df.columns \/ COUNTRY \notin df.columns THEN 0
              ELSE IF RATIO \notin df.columns THEN 1
              ELSE 2

C7_Witness ==
    /\ pc = "returned"
    /\ df.columns = ExpectedColumns \ {COUNT}
    /\ df.rows # <<>>
    /\ ret.err = "KeyError"
    /\ ret.joins = 2

\* C8: with zero skills or zero countries get_data returns empty x, y, z and
\* color and raises no error, whatever the other selection.
C8_EmptySelection ==
    (pc = "returned" /\ WellFormed /\ (skills = <<>> \/ countries = <<>>)) =>
        /\ ret.err = "none"
        /\ ret.x = <<>>
        /\ ret.y = <<>>
        /\ ret.z = <<>>
        /\ ret.color = <<>>

C8_Witness ==
    /\ Returned
    /\ skills = <<>>
    /\ Len(countries) = 3
    /\ df.rows # <<>>
    /\ ret.color = <<>>

\* C9: the chart depends only on the current sets of selected skills and
\* countries: its factors and bound data are get_data of the source table and
\* the selections in ascending order, whatever sequence of changes led there.
C9_HistoryIndependent ==
    pc = "serving" =>
        LET g == get_data(df, Ascending(Range(country_value)),
                          Ascending(Range(skill_value)), outer_sorts)
        IN  /\ g.err = "none"
            /\ factors = g.x
            /\ source = Data(g)

C9_Witness ==
    /\ pc = "serving"
    /\ events = 2
    /\ Len(country_value) = Len(select_countries)
    /\ country_value[Len(country_value)] < country_value[1]
    /\ factors # Product(skill_value, country_value)
    /\ factors = source.x

\* C10: at startup and after every completed callback the x-range factors
\* are the x column of the bound data source, in the same order.
C10_FactorsAreSourceX ==
    pc = "serving" => factors = source.x

C10_Witness ==
    /\ pc = "serving"
    /\ events >= 1
    /\ factors = source.x
    /\ factors # Product(select_skills, select_countries)

\* Once the module-level script has run to its end, get_data raises for no
\* selection the widgets can hold (the case C6 is about).
NoFailureWhileServing ==
    pc = "serving" =>
        get_data(df, sorted(country_value), sorted(skill_value),
                 outer_sorts).err = "none"

====
